---- MODULE Spec2Model ----
(***************************************************************************)
(* Lineon: interactive visualiser of 2x2 linear maps (Dash application).    *)
(*                                                                         *)
(* The model follows src/utils.py (matrix operations, shape sampling,      *)
(* plot data, created figure) and src/callbacks.py (the callbacks that     *)
(* carry the per-display settings and compute the four figures and their   *)
(* shared axis range).                                                     *)
(*                                                                         *)
(* Numbers are exact rationals <<n, d>> (d > 0, lowest terms): the         *)
(* program computes in double precision, the model in exact arithmetic,    *)
(* except where rounding decides a branch (the singularity test of         *)
(* np.linalg.inv, the threshold on np.linalg.det), which it follows.       *)
(* Where the program takes a square root (Frobenius norm, polar            *)
(* decomposition) the model covers the inputs whose root is rational;      *)
(* np.cos and np.sin are tabled to three decimals.                         *)
(***************************************************************************)
EXTENDS Integers, Sequences, FiniteSets, TLC

VARIABLES
    active_display,   \* children of the hidden div "active-display" (1..4)
    settings,         \* data of the stores display-1..4-settings
    controls,         \* values of the six shared sidebar controls
    temp_trigger,     \* children of the hidden div "temp-trigger"
    matrix_values,    \* the 16 matrix input cells, by matrix id
    pending,          \* callbacks Dash has triggered and not yet requested
    in_flight,        \* per callback, the request the server has not answered
    display_outline,  \* "outline" of the buttons display-1..4-btn
    matrix_outline,   \* "outline" of the buttons matrix-A..D-btn
    figures,          \* what update_displays last returned, per display
    info,             \* what update_display_info last returned, per display
    events,           \* number of user events so far
    call,             \* the arguments of a direct call of a pure function
    result            \* what that call returned

vars == <<active_display, settings, controls, temp_trigger, matrix_values,
          pending, in_flight, display_outline, matrix_outline, figures, info,
          events, call, result>>

-----------------------------------------------------------------------------
(* Exact rational arithmetic *)

Abs(n) == IF n < 0 THEN -n ELSE n

\* F(v), with v evaluated once
With(v, F(_)) == CHOOSE r \in {F(x) : x \in {v}} : TRUE

RECURSIVE GCD(_, _)
GCD(a, b) == IF b = 0 THEN a ELSE GCD(b, a % b)

\* the rational n/d in lowest terms with a positive denominator (d # 0)
Q(n, d) ==
    IF d < 0
    THEN <<(-n) \div GCD(Abs(n), -d), (-d) \div GCD(Abs(n), -d)>>
    ELSE <<n \div GCD(Abs(n), d), d \div GCD(Abs(n), d)>>

Num(n) == <<n, 1>>
Zero   == <<0, 1>>
One    == <<1, 1>>

\* Python's None (an empty number input); never a rational (denominator 0)
None == <<0, 0>>
\* the outcome of a floating-point division by zero (inf or nan)
NotANumber == <<1, 0>>

IsNumber(a) == a[2] > 0

RAdd(a, b) ==
    IF a[2] = b[2]
    THEN Q(a[1] + b[1], a[2])
    ELSE LET g == GCD(a[2], b[2])
         IN  Q(a[1] * (b[2] \div g) + b[1] * (a[2] \div g),
               (a[2] \div g) * b[2])
RNeg(a)    == <<-a[1], a[2]>>
RSub(a, b) == RAdd(a, RNeg(b))
RMul(a, b) == Q(a[1] * b[1], a[2] * b[2])
RDiv(a, b) ==
    IF ~IsNumber(a) \/ ~IsNumber(b) \/ b[1] = 0
    THEN NotANumber
    ELSE Q(a[1] * b[2], a[2] * b[1])
RLt(a, b)  == a[1] * b[2] < b[1] * a[2]
RLe(a, b)  == a[1] * b[2] <= b[1] * a[2]
RAbs(a)    == <<Abs(a[1]), a[2]>>
RMax(a, b) == IF RLt(a, b) THEN b ELSE a
RMin(a, b) == IF RLt(b, a) THEN b ELSE a

\* integer square root of a perfect square (-1 when n is not one)
ISqrt(n) ==
    LET roots == 0..(IF n < 46340 THEN n ELSE 46340)
    IN  IF \E k \in roots : k * k = n
        THEN CHOOSE k \in roots : k * k = n
        ELSE -1

HasRSqrt(a) == ISqrt(a[1]) >= 0 /\ ISqrt(a[2]) >= 0
RSqrt(a)    == <<ISqrt(a[1]), ISqrt(a[2])>>

RECURSIVE MaxIn(_, _, _), MinIn(_, _, _)
MaxIn(s, lo, hi) ==
    IF lo = hi THEN s[lo]
    ELSE LET mid == (lo + hi) \div 2
             a == MaxIn(s, lo, mid)
             b == MaxIn(s, mid + 1, hi)
         IN  IF RLt(a, b) THEN b ELSE a
MinIn(s, lo, hi) ==
    IF lo = hi THEN s[lo]
    ELSE LET mid == (lo + hi) \div 2
             a == MinIn(s, lo, mid)
             b == MinIn(s, mid + 1, hi)
         IN  IF RLt(b, a) THEN b ELSE a
\* Python's max() and min() of a non-empty list
SeqMax(s) == MaxIn(s, 1, Len(s))
SeqMin(s) == MinIn(s, 1, Len(s))

-----------------------------------------------------------------------------
(* 2x2 matrices, row-major <<a11, a12, a21, a22>> *)

Eye == <<One, Zero, Zero, One>>
ZeroMatrix == <<Zero, Zero, Zero, Zero>>

MT(m)        == <<m[1], m[3], m[2], m[4]>>
MAdd(a, b) ==
    <<RAdd(a[1], b[1]), RAdd(a[2], b[2]), RAdd(a[3], b[3]), RAdd(a[4], b[4])>>
MSub(a, b) ==
    <<RSub(a[1], b[1]), RSub(a[2], b[2]), RSub(a[3], b[3]), RSub(a[4], b[4])>>
MScale(m, r) == <<RMul(m[1], r), RMul(m[2], r), RMul(m[3], r), RMul(m[4], r)>>
MDiv(m, r)   == <<RDiv(m[1], r), RDiv(m[2], r), RDiv(m[3], r), RDiv(m[4], r)>>
MMul(a, b) ==
    <<RAdd(RMul(a[1], b[1]), RMul(a[2], b[3])),
      RAdd(RMul(a[1], b[2]), RMul(a[2], b[4])),
      RAdd(RMul(a[3], b[1]), RMul(a[4], b[3])),
      RAdd(RMul(a[3], b[2]), RMul(a[4], b[4]))>>
Det(m)   == RSub(RMul(m[1], m[4]), RMul(m[2], m[3]))
Trace(m) == RAdd(m[1], m[4])
IsMatrix(m) == \A i \in 1..4 : IsNumber(m[i])

(* np.linalg.inv and np.linalg.det factor the matrix in double precision by  *)
(* LU with partial pivoting (LAPACK getrf): the row with the larger first    *)
(* entry p becomes the pivot row <<p, q>>, the other row <<o, r>> is reduced *)
(* with the multiplier l = fl(o / p), and the second pivot is                *)
(* u22 = fl(r - fl(l * q)).  The matrix is found singular only when a pivot  *)
(* is exactly 0.  On a matrix with det = 0 the exact u22 is 0, and what is   *)
(* computed is the rounding left over, which the definitions below follow    *)
(* exactly; on the other matrices the model computes without rounding.  The  *)
(* matrix entries are doubles of few bits (rationals whose denominator is a  *)
(* power of two).  (LAPACK scales by the rounded reciprocal of p, which      *)
(* gives the same l whenever o is a power of two.)                           *)

\* a finite double the model does not follow: a quotient by a rounding residue
Huge == <<2, 0>>

RECURSIVE Exponent(_, _)
\* the binary exponent e of n/d > 0:  2^e <= n/d < 2^(e+1)
Exponent(n, d) ==
    IF n >= 2 * d THEN Exponent(n, 2 * d) + 1
    ELSE IF n < d THEN Exponent(2 * n, d) - 1
    ELSE 0

RECURSIVE PowerOfTwoMod(_, _)
\* 2^k mod d
PowerOfTwoMod(k, d) ==
    IF k = 0 THEN 1 % d
    ELSE LET h == PowerOfTwoMod(k \div 2, d)
         IN  IF k % 2 = 0 THEN (h * h) % d ELSE (2 * ((h * h) % d)) % d

\* 2^e as a rational
TwoTo(e) == IF e >= 0 THEN <<2 ^ e, 1>> ELSE <<1, 2 ^ (-e)>>

RECURSIVE IsPowerOfTwoInt(_)
IsPowerOfTwoInt(n) == n = 1 \/ (n > 1 /\ n % 2 = 0 /\ IsPowerOfTwoInt(n \div 2))
\* for a rational in lowest terms
IsPowerOfTwo(a) ==
    \/ a[1] = 1 /\ IsPowerOfTwoInt(a[2])
    \/ a[2] = 1 /\ IsPowerOfTwoInt(a[1])

\* (fl(a) - a) / ulp(a) for a > 0: the 53-bit significand of a is the
\* quotient of a[1] * 2^k by a[2], k = 52 - exponent, rounded to nearest
RoundOff(a) ==
    LET k   == 52 - Exponent(a[1], a[2])
        rho == ((a[1] % a[2]) * PowerOfTwoMod(k, a[2])) % a[2]
    IN  IF 2 * rho < a[2] THEN Q(-rho, a[2]) ELSE Q(a[2] - rho, a[2])

\* the integer nearest to x >= 0, ties to even
RoundHalfEven(x) ==
    LET floor == x[1] \div x[2]
        rest  == 2 * (x[1] - floor * x[2])
    IN  IF rest < x[2] THEN floor
        ELSE IF rest > x[2] THEN floor + 1
        ELSE IF floor % 2 = 0 THEN floor ELSE floor + 1

\* |u22| * 2^52 for a matrix with det = 0: with |r| = |l * q| a double, the
\* product fl(l) * q lies  x = RoundOff(l) * |q| * ulp(l) / ulp(r)  ulps of r
\* off |r|, and rounds to the double nearest to it (below a power of two
\* the doubles lie twice as dense)
PivotResidual(m) ==
    LET swap == Abs(m[3][1]) * m[1][2] > Abs(m[1][1]) * m[3][2]
        p == IF swap THEN m[3] ELSE m[1]
        q == IF swap THEN m[4] ELSE m[2]
        o == IF swap THEN m[1] ELSE m[3]
        r == IF swap THEN m[2] ELSE m[4]
    IN  IF p = Zero \/ o = Zero \/ q = Zero THEN Zero
        ELSE LET l   == RAbs(RDiv(o, p))
                 e_l == Exponent(l[1], l[2])
                 e_r == Exponent(Abs(r[1]), r[2])
                 x   == RMul(RMul(RoundOff(l), RAbs(q)), TwoTo(e_l - e_r))
                 off == IF x[1] >= 0 THEN Num(RoundHalfEven(x))
                        ELSE IF IsPowerOfTwo(RAbs(r))
                             THEN Q(RoundHalfEven(RMul(Num(2), RAbs(x))), 2)
                             ELSE Num(RoundHalfEven(RAbs(x)))
             IN  RMul(off, TwoTo(e_r))

\* np.linalg.inv: raises LinAlgError when the factorisation finds a pivot 0
\* faulty variant of np_linalg_inv: a determinant below 1 counts as singular
np_linalg_inv_thresholded(m) ==
    LET det == Det(m)
    IN  IF RLe(One, RAbs(det))
        THEN [raised |-> FALSE,
              value  |-> MDiv(<<m[4], RNeg(m[2]), RNeg(m[3]), m[1]>>, det)]
        ELSE [raised |-> TRUE, value |-> m]

np_linalg_inv(m) ==
    LET det == Det(m)
    IN  IF det # Zero
        THEN [raised |-> FALSE,
              value  |-> MDiv(<<m[4], RNeg(m[2]), RNeg(m[3]), m[1]>>, det)]
        ELSE IF PivotResidual(m) = Zero
             THEN [raised |-> TRUE, value |-> m]
             ELSE [raised |-> FALSE, value |-> <<Huge, Huge, Huge, Huge>>]

\* np.linalg.det: the product of the pivots, value + residual * 2^-52 in size
np_linalg_det(m) ==
    LET det == Det(m)
        swap == Abs(m[3][1]) * m[1][2] > Abs(m[1][1]) * m[3][2]
        p == IF swap THEN m[3] ELSE m[1]
    IN  [value    |-> det,
         residual |-> IF det # Zero THEN Zero
                      ELSE RMul(RAbs(p), PivotResidual(m))]

\* np.linalg.norm: the Frobenius norm, squared
NormSquared(m) ==
    RAdd(RAdd(RMul(m[1], m[1]), RMul(m[2], m[2])),
         RAdd(RMul(m[3], m[3]), RMul(m[4], m[4])))

\* scipy.linalg.polar(m) = (u, p) with m = u p, u orthogonal, p = sqrt(m^T m).
\* For a 2x2 matrix  p = (m^T m + |det m| I) / t,  t^2 = tr(m^T m) + 2 |det m|.
PolarT2(m) == RAdd(Trace(MMul(MT(m), m)), RMul(Num(2), RAbs(Det(m))))
\* the inputs whose factors are rational and unique
PolarExact(m) ==
    m = ZeroMatrix \/ (Det(m) # Zero /\ With(PolarT2(m), HasRSqrt))
PolarP(m) ==
    IF m = ZeroMatrix THEN ZeroMatrix
    ELSE LET divided(t) ==
                 MDiv(MAdd(MMul(MT(m), m), MScale(Eye, RAbs(Det(m)))), t)
         IN  With(RSqrt(PolarT2(m)), divided)
PolarU(m) ==
    IF m = ZeroMatrix THEN Eye
    ELSE LET product(inv) == MMul(m, inv.value)
             inverse(p) == With(np_linalg_inv(p), product)
         IN  With(PolarP(m), inverse)

-----------------------------------------------------------------------------
(* src/utils.py: apply_operation, apply_scaling *)

Operations ==
    {"none", "transpose", "symmetric", "skew", "inverse", "squared", "cubed",
     "rotation", "stretch", "volumetric", "deviatoric", "subtract_identity"}
Scalings == {"original", "normalized", "determinant", "halved", "doubled"}

Half == <<1, 2>>

apply_operation(matrix, operation) ==
    LET applied(m) ==
            CASE operation = "none"      -> m
              [] operation = "transpose" -> MT(m)
              [] operation = "symmetric" -> MDiv(MAdd(m, MT(m)), Num(2))
              [] operation = "skew"      -> MDiv(MSub(m, MT(m)), Num(2))
              [] operation = "inverse"   ->
                    LET inv == np_linalg_inv(m)
                    IN  IF inv.raised THEN Eye ELSE inv.value
              [] operation = "squared"   -> MMul(m, m)
              [] operation = "cubed"     -> MMul(MMul(m, m), m)
              [] operation = "rotation"  -> PolarU(m)
              [] operation = "stretch"   -> PolarP(m)
              [] operation = "volumetric" ->
                    MScale(Eye, RMul(Half, Trace(m)))
              [] operation = "deviatoric" ->
                    MSub(m, MScale(Eye, RMul(Half, Trace(m))))
              [] operation = "subtract_identity" -> MSub(m, Eye)
              [] OTHER -> m
    IN  With(matrix, applied)

\* abs(det) > 1e-10.  For a rational n/d:  |n| * 10^10 > d;  for a residual
\* of det.residual * 2^-52:  det.residual > 2^52 * 1e-10 = 450359.96..
AboveDetThreshold(det) ==
    IF det.value # Zero
    THEN Abs(det.value[1]) * 100000 > det.value[2] \div 100000
    ELSE det.residual[1] \div det.residual[2] >= 450360

\* faulty variant of apply_scaling: "normalized" divides by the squared norm
apply_scaling_norm_squared(matrix, scaling) ==
    LET scaled(m) ==
            CASE scaling = "normalized" ->
                    LET divided(norm) ==
                            IF RLt(Zero, norm) THEN MDiv(m, norm) ELSE m
                    IN  With(NormSquared(m), divided)
              [] scaling = "halved"  -> MDiv(m, Num(2))
              [] scaling = "doubled" -> MScale(m, Num(2))
              [] OTHER -> m
    IN  With(matrix, scaled)

apply_scaling(matrix, scaling) ==
    LET scaled(m) ==
            CASE scaling = "original"   -> m
              [] scaling = "normalized" ->
                    LET divided(norm) ==
                            IF RLt(Zero, norm) THEN MDiv(m, norm) ELSE m
                    IN  With(RSqrt(NormSquared(m)), divided)
              [] scaling = "determinant" ->
                    LET divided(det) ==
                            IF AboveDetThreshold(det)
                            THEN IF det.value # Zero THEN MDiv(m, det.value)
                                 ELSE [i \in 1..4 |->
                                          IF m[i] = Zero THEN Zero ELSE Huge]
                            ELSE m
                    IN  With(np_linalg_det(m), divided)
              [] scaling = "halved"  -> MDiv(m, Num(2))
              [] scaling = "doubled" -> MScale(m, Num(2))
              [] OTHER -> m
    IN  With(matrix, scaled)

\* the inputs on which the model's exact arithmetic can follow the program
OperationExact(matrix, operation) ==
    operation \in {"rotation", "stretch"} => PolarExact(matrix)
ScalingExact(matrix, scaling) ==
    scaling = "normalized" => With(NormSquared(matrix), HasRSqrt)

-----------------------------------------------------------------------------
(* src/utils.py: generate_shape_points *)

\* np.cos on the first quadrant, in thousandths, by quarter degrees
CosTable ==
    [q \in {0, 45, 72, 90, 120, 135, 144, 180, 216, 225, 240, 270, 288, 315, 360} |->
        CASE q = 0   -> 1000 [] q = 45  -> 981 [] q = 72  -> 951
          [] q = 90  -> 924  [] q = 120 -> 866 [] q = 135 -> 831
          [] q = 144 -> 809  [] q = 180 -> 707 [] q = 216 -> 588
          [] q = 225 -> 556  [] q = 240 -> 500 [] q = 270 -> 383
          [] q = 288 -> 309  [] q = 315 -> 195 [] q = 360 -> 0]

\* cos and sin of an angle given in quarter degrees (1440 to the full turn)
CosQ(angle) ==
    LET q == angle % 1440
    IN  IF q <= 360 THEN Q(CosTable[q], 1000)
        ELSE IF q <= 720 THEN Q(-CosTable[720 - q], 1000)
        ELSE IF q <= 1080 THEN Q(-CosTable[q - 720], 1000)
        ELSE Q(CosTable[1440 - q], 1000)
SinQ(angle) == CosQ(angle + 1080)

\* the point counts whose circle angles (multiples of 2*pi/n) are tabled
CircleCounts == {0, 1, 2, 4, 5, 6, 8, 10, 12, 16, 20, 32}

\* theta = np.linspace(0, 2*pi, num_points, endpoint=False); (cos, sin)
CirclePoints(num_points) ==
    [k \in 1..num_points |->
        <<CosQ(((k - 1) * 1440) \div num_points),
          SinQ(((k - 1) * 1440) \div num_points)>>]

SquareCorners ==
    <<<<Num(-1), Num(-1)>>, <<One, Num(-1)>>, <<One, One>>, <<Num(-1), One>>>>
HexagonCorners == [i \in 1..6 |-> <<CosQ((i - 1) * 240), SinQ((i - 1) * 240)>>]

\* faulty variant of SidePoints: the side holds its end, not its start
SidePoints_to_end(start, end, n_side) ==
    [j \in 1..n_side |->
        <<RAdd(start[1], RMul(Q(j, n_side), RSub(end[1], start[1]))),
          RAdd(start[2], RMul(Q(j, n_side), RSub(end[2], start[2])))>>]

\* the points of one side: start + (j / n_side) * (end - start), j = 0..n_side-1
SidePoints(start, end, n_side) ==
    [j \in 1..n_side |->
        <<RAdd(start[1], RMul(Q(j - 1, n_side), RSub(end[1], start[1]))),
          RAdd(start[2], RMul(Q(j - 1, n_side), RSub(end[2], start[2])))>>]

RECURSIVE PolygonPoints_with_ends(_, _, _)
\* faulty variant of PolygonPoints: every side holds its end corner too
PolygonPoints_with_ends(corners, n, i) ==
    IF i > Len(corners) THEN <<>>
    ELSE LET sides  == Len(corners)
             n_side == (n \div sides) + (IF i - 1 < n % sides THEN 1 ELSE 0)
         IN  SidePoints(corners[i], corners[(i % sides) + 1], n_side)
             \o <<corners[(i % sides) + 1]>>
             \o PolygonPoints_with_ends(corners, n, i + 1)

RECURSIVE PolygonPoints(_, _, _)
\* the sides i..Len(corners) of the polygon, n points over all its sides
PolygonPoints(corners, n, i) ==
    IF i > Len(corners) THEN <<>>
    ELSE LET sides  == Len(corners)
             n_side == (n \div sides) + (IF i - 1 < n % sides THEN 1 ELSE 0)
         IN  SidePoints(corners[i], corners[(i % sides) + 1], n_side)
             \o PolygonPoints(corners, n, i + 1)

IntMax(a, b) == IF a > b THEN a ELSE b

\* faulty variant of generate_shape_points: the point count is not clamped
generate_shape_points_unclamped(shape_type, num_points) ==
    CASE shape_type = "square"  -> PolygonPoints(SquareCorners, num_points, 1)
      [] shape_type = "hexagon" -> PolygonPoints(HexagonCorners, num_points, 1)
      [] OTHER -> CirclePoints(num_points)

generate_shape_points(shape_type, num_points) ==
    CASE shape_type = "circle"  -> CirclePoints(num_points)
      [] shape_type = "square"  ->
            PolygonPoints(SquareCorners, IntMax(num_points, 4), 1)
      [] shape_type = "hexagon" ->
            PolygonPoints(HexagonCorners, IntMax(num_points, 6), 1)
      [] OTHER -> CirclePoints(num_points)

ShapeExact(shape_type, num_points) ==
    shape_type \notin {"square", "hexagon"} => num_points \in CircleCounts

-----------------------------------------------------------------------------
(* src/utils.py: get_reference_vectors, prepare_plot_data *)

\* faulty variant of get_reference_vectors: the two vectors in the other order
get_reference_vectors_swapped == <<<<Zero, One>>, <<One, Zero>>>>

get_reference_vectors == <<<<One, Zero>>, <<Zero, One>>>>

\* faulty variant of MapPoint: one row of  points @ matrix
MapPoint_transposed(matrix, p) ==
    <<RAdd(RMul(p[1], matrix[1]), RMul(p[2], matrix[3])),
      RAdd(RMul(p[1], matrix[2]), RMul(p[2], matrix[4]))>>

\* one row of  points @ matrix.T
MapPoint(matrix, p) ==
    <<RAdd(RMul(p[1], matrix[1]), RMul(p[2], matrix[2])),
      RAdd(RMul(p[1], matrix[3]), RMul(p[2], matrix[4]))>>

\* faulty variant of OriginArrows: the arrows point at the origin
OriginArrows_reversed(points) ==
    [i \in 1..Len(points) |-> <<points[i][1], points[i][2], Zero, Zero>>]

OriginArrows(points) ==
    [i \in 1..Len(points) |-> <<Zero, Zero, points[i][1], points[i][2]>>]

\* [x1 + x2, y1 + y2] over zip(unmapped_points, mapped_points)
extended_points(unmapped_points, mapped_points) ==
    [i \in 1..Len(unmapped_points) |->
        <<RAdd(unmapped_points[i][1], mapped_points[i][1]),
          RAdd(unmapped_points[i][2], mapped_points[i][2])>>]

\* faulty variant of ArrowsBetween: the arrows point from `heads` to `tails`
ArrowsBetween_backwards(tails, heads) ==
    [i \in 1..Len(tails) |->
        <<heads[i][1], heads[i][2], tails[i][1], tails[i][2]>>]

\* the arrows from each of the points `tails` to the point of `heads`
ArrowsBetween(tails, heads) ==
    [i \in 1..Len(tails) |->
        <<tails[i][1], tails[i][2], heads[i][1], heads[i][2]>>]

\* faulty variant of mapped_arrows_of: "difference" draws the arrows of "normal"
mapped_arrows_of_extended(view_mode, unmapped_points, mapped_points) ==
    CASE view_mode = "map" -> OriginArrows(mapped_points)
      [] OTHER ->
            ArrowsBetween(unmapped_points,
                          extended_points(unmapped_points, mapped_points))

\* mapped_arrows, by view mode
mapped_arrows_of(view_mode, unmapped_points, mapped_points) ==
    CASE view_mode = "map" -> OriginArrows(mapped_points)
      [] view_mode = "difference" -> ArrowsBetween(unmapped_points, mapped_points)
      [] OTHER ->
            ArrowsBetween(unmapped_points,
                          extended_points(unmapped_points, mapped_points))

\* faulty variant of outline_mapped_points_of: always the mapped points
outline_mapped_points_raw(view_mode, unmapped_points, mapped_points) ==
    mapped_points

\* outline_mapped_points, by view mode
outline_mapped_points_of(view_mode, unmapped_points, mapped_points) ==
    IF view_mode \in {"map", "difference"} THEN mapped_points
    ELSE extended_points(unmapped_points, mapped_points)

plot_data_of(matrix, view_mode, unmapped_points) ==
    LET mapped_points ==
            [i \in 1..Len(unmapped_points) |-> MapPoint(matrix, unmapped_points[i])]
        unmapped_ref == get_reference_vectors
        mapped_ref == [i \in 1..2 |-> MapPoint(matrix, unmapped_ref[i])]
        mapped_arrows ==
            mapped_arrows_of(view_mode, unmapped_points, mapped_points)
        outline_mapped_points ==
            outline_mapped_points_of(view_mode, unmapped_points, mapped_points)
    IN  [unmapped_points     |-> unmapped_points,
         mapped_points       |-> outline_mapped_points,
         unmapped_arrows     |-> OriginArrows(unmapped_points),
         mapped_arrows       |-> mapped_arrows,
         unmapped_ref_arrows |-> OriginArrows(unmapped_ref),
         mapped_ref_arrows   |-> OriginArrows(mapped_ref)]

prepare_plot_data(matrix, shape_type, num_points, view_mode, display_options) ==
    LET mapped(m) ==
            LET F(unmapped_points) == plot_data_of(m, view_mode, unmapped_points)
            IN  With(generate_shape_points(shape_type, num_points), F)
    IN  With(matrix, mapped)

-----------------------------------------------------------------------------
(* src/callbacks.py: get_matrix_from_values, format_matrix *)

MatrixIds  == {"A", "B", "C", "D"}
DisplayIds == {"1", "2", "3", "4"}
\* int(active_display)
ToInt == [d \in DisplayIds |->
            CASE d = "1" -> 1 [] d = "2" -> 2 [] d = "3" -> 3 [] d = "4" -> 4]
ToStr == [i \in 1..4 |->
            CASE i = 1 -> "1" [] i = 2 -> "2" [] i = 3 -> "3" [] i = 4 -> "4"]

OrDefault(value, default) == IF value # None THEN value ELSE default

get_matrix_from_values(values) ==
    LET a11 == OrDefault(values[1], One)
        a12 == OrDefault(values[2], Zero)
        a21 == OrDefault(values[3], Zero)
        a22 == OrDefault(values[4], One)
    IN  IF \A val \in {a11, a12, a21, a22} : val = Zero
        THEN <<One, a12, a21, One>>
        ELSE <<a11, a12, a21, a22>>

\* f"{x:.1f}": the number of tenths nearest to x (ties to the even one)
FormatTenths(x) ==
    LET n == 10 * x[1]
        f == n \div x[2]           \* floor(10 x)
        r == n % x[2]              \* 0 <= r < d
    IN  IF 2 * r < x[2] THEN f
        ELSE IF 2 * r > x[2] THEN f + 1
        ELSE IF f % 2 = 0 THEN f ELSE f + 1

format_matrix(matrix) ==
    LET text(m) == <<<<FormatTenths(m[1]), FormatTenths(m[2])>>,
                     <<FormatTenths(m[3]), FormatTenths(m[4])>>>>
    IN  With(matrix, text)

\* settings.get("matrix", "A"): a store without the key has matrix = ""
SettingsMatrix(s) == IF s.matrix = "" THEN "A" ELSE s.matrix

-----------------------------------------------------------------------------
(* src/callbacks.py: update_display_info *)

\* base_matrix: the four cells, "with defaults if values are None"
info_base_matrix(values) ==
    <<OrDefault(values[1], One), OrDefault(values[2], Zero),
      OrDefault(values[3], Zero), OrDefault(values[4], One)>>

display_info(s, values) ==
    LET matrix_id == SettingsMatrix(s)
        base_matrix == info_base_matrix(values[matrix_id])
        operated == IF s.operation # "none"
                    THEN apply_operation(base_matrix, s.operation)
                    ELSE base_matrix
        matrix == IF s.scaling # "original"
                  THEN apply_scaling(operated, s.scaling)
                  ELSE operated
    IN  [operation_name |->
            <<matrix_id,
              IF s.operation # "none" THEN s.operation ELSE "Original",
              IF s.scaling # "original" THEN s.scaling ELSE "">>,
         matrix_text |-> format_matrix(matrix)]

-----------------------------------------------------------------------------
(* src/callbacks.py: update_displays; src/utils.py: create_plot (layout) *)

\* faulty variant of display_matrix: the scaling before the operation
display_matrix_scaling_first(s, values) ==
    LET base_matrix == get_matrix_from_values(values[SettingsMatrix(s)])
    IN  apply_operation(apply_scaling(base_matrix, s.scaling), s.operation)

\* the matrix a display's geometry is computed with
display_matrix(s, values) ==
    LET base_matrix == get_matrix_from_values(values[SettingsMatrix(s)])
    IN  apply_scaling(apply_operation(base_matrix, s.operation), s.scaling)

display_plot_data(s, values) ==
    prepare_plot_data(display_matrix(s, values), s.shape, s.num_arrows,
                      s.view, s.display_options)

Column(points, c) == [i \in 1..Len(points) |-> points[i][c]]

\* faulty variant of collected: the reference arrows are left out
collected_points_only(plot_data, c) ==
    (IF Len(plot_data.unmapped_points) > 0
        THEN Column(plot_data.unmapped_points, c) ELSE <<>>)
    \o (IF Len(plot_data.mapped_points) > 0
        THEN Column(plot_data.mapped_points, c) ELSE <<>>)

\* the coordinates (c = 1: x, c = 2: y) one display adds to all_points_x/_y
collected(plot_data, c) ==
    (IF Len(plot_data.unmapped_points) > 0
        THEN Column(plot_data.unmapped_points, c) ELSE <<>>)
    \o (IF Len(plot_data.mapped_points) > 0
        THEN Column(plot_data.mapped_points, c) ELSE <<>>)
    \o [i \in 1..Len(plot_data.mapped_ref_arrows) |->
            plot_data.mapped_ref_arrows[i][c + 2]]

\* faulty variant of all_points: the first display's coordinates only
all_points_of_first_display(all_plot_data, c) ==
    IF all_plot_data = <<>> THEN <<>> ELSE collected(Head(all_plot_data), c)

RECURSIVE all_points(_, _)
all_points(all_plot_data, c) ==
    IF all_plot_data = <<>> THEN <<>>
    ELSE collected(Head(all_plot_data), c) \o all_points(Tail(all_plot_data), c)

\* global_axis_range = None
NoRange == [x |-> <<>>, y |-> <<>>]

MinRange == <<11, 5>>        \* min_range = 2.2
PaddingFactor == <<1, 20>>   \* 0.05

\* faulty variant of padding: taken of the range after the floor
padding_of_floored(data_range) == RMul(RMax(data_range, MinRange), PaddingFactor)

\* padding = max_range * 0.05, of the larger of x_range and y_range
padding(data_range) == RMul(data_range, PaddingFactor)

\* faulty variant of center: half the width instead of the midpoint
center_as_half_width(lo, hi) == RDiv(RSub(hi, lo), Num(2))

\* x_center, y_center
center(lo, hi) == RDiv(RAdd(hi, lo), Num(2))

\* faulty variant of max_range: no floor
max_range_unfloored(data_range) == data_range

\* max_range = max(max_range, min_range)
max_range(data_range) == RMax(data_range, MinRange)

global_axis_range(all_points_x, all_points_y) ==
    IF all_points_x # <<>> /\ all_points_y # <<>>
    THEN LET x_min == SeqMin(all_points_x)
             x_max == SeqMax(all_points_x)
             y_min == SeqMin(all_points_y)
             y_max == SeqMax(all_points_y)
             x_range == RSub(x_max, x_min)
             y_range == RSub(y_max, y_min)
             data_range == RMax(x_range, y_range)
             pad == padding(data_range)
             x_center == center(x_min, x_max)
             y_center == center(y_min, y_max)
             half == RDiv(max_range(data_range), Num(2))
         IN  [x |-> <<RSub(RSub(x_center, half), pad),
                      RAdd(RAdd(x_center, half), pad)>>,
              y |-> <<RSub(RSub(y_center, half), pad),
                      RAdd(RAdd(y_center, half), pad)>>]
    ELSE NoRange

\* the figure: what it draws, and the axis ranges of its layout (<<>>: not set)
\* the line of an outline: x = np.append(x, x[0]), y = np.append(y, y[0])
closed_loop(points) == points \o <<points[1]>>

\* arrow_length = np.sqrt(dx**2 + dy**2) is 0
ZeroLength(arrow) == arrow[1] = arrow[3] /\ arrow[2] = arrow[4]

\* the arrows of a list drawn under  if arrow_length > 0:  (line, arrowhead
\* and marker each)
arrows_drawn(arrows) == SelectSeq(arrows, LAMBDA arrow : ~ZeroLength(arrow))

\* the arrows one class of a figure shows, and those among them for which
\* arrowhead_size / arrow_length divides by 0
NoArrows == [drawn |-> <<>>, divided_by_zero |-> {}]
Arrows(drawn) ==
    [drawn |-> drawn,
     divided_by_zero |-> {k \in 1..Len(drawn) : ZeroLength(drawn[k])}]

create_plot(plot_data, display_options, axis_range) ==
    [plot_data       |-> plot_data,
     display_options |-> display_options,
     unmapped_arrows |-> IF "show_unmapped_arrows" \in display_options
                         THEN Arrows(arrows_drawn(plot_data.unmapped_arrows))
                         ELSE NoArrows,
     mapped_arrows   |-> IF "show_mapped_arrows" \in display_options
                         THEN Arrows(arrows_drawn(plot_data.mapped_arrows))
                         ELSE NoArrows,
     unmapped_reference |->
        IF "show_unmapped_reference" \in display_options
        THEN Arrows(<<plot_data.unmapped_ref_arrows[1],
                      plot_data.unmapped_ref_arrows[2]>>)
        ELSE NoArrows,
     mapped_reference |->
        IF "show_mapped_reference" \in display_options
        THEN Arrows(<<plot_data.mapped_ref_arrows[1],
                      plot_data.mapped_ref_arrows[2]>>)
        ELSE NoArrows,
     unmapped_outline |-> IF "show_unmapped_outline" \in display_options
                          THEN closed_loop(plot_data.unmapped_points) ELSE <<>>,
     mapped_outline   |-> IF "show_mapped_outline" \in display_options
                          THEN closed_loop(plot_data.mapped_points) ELSE <<>>,
     xaxis_range     |-> IF axis_range # NoRange THEN axis_range.x ELSE <<>>,
     yaxis_range     |-> IF axis_range # NoRange THEN axis_range.y ELSE <<>>]

\* faulty variant of figures_of: each display ranged by its own plot data
figures_of_own_range(all_plot_data, display_settings) ==
    [i \in 1..4 |->
        create_plot(all_plot_data[i], display_settings[i].display_options,
                    global_axis_range(collected(all_plot_data[i], 1),
                                      collected(all_plot_data[i], 2)))]

\* the figures of the four displays, from their plot data
figures_of(all_plot_data, display_settings) ==
    LET F(range) ==
            [i \in 1..4 |->
                create_plot(all_plot_data[i],
                            display_settings[i].display_options, range)]
    IN  With(global_axis_range(all_points(all_plot_data, 1),
                               all_points(all_plot_data, 2)), F)

\* the figures update_displays returns for the four displays
displays(values, display_settings) ==
    LET F(all_plot_data) == figures_of(all_plot_data, display_settings)
    IN  With(<<display_plot_data(display_settings[1], values),
               display_plot_data(display_settings[2], values),
               display_plot_data(display_settings[3], values),
               display_plot_data(display_settings[4], values)>>, F)

-----------------------------------------------------------------------------
(* src/layout.py: the initial values of the components *)

AllDisplayOptions ==
    {"show_unmapped_arrows", "show_mapped_arrows", "show_unmapped_outline",
     "show_mapped_outline", "show_unmapped_reference", "show_mapped_reference"}
DefaultDisplayOptions ==
    {"show_unmapped_arrows", "show_mapped_arrows", "show_unmapped_outline",
     "show_mapped_outline"}

\* the data of each dcc.Store display-i-settings (no "matrix" key)
DefaultSettings ==
    [operation |-> "none", scaling |-> "original", view |-> "map",
     shape |-> "circle", num_arrows |-> 32,
     display_options |-> DefaultDisplayOptions, matrix |-> ""]

\* the six sidebar controls; num-arrows-input holds <<n>>, or <<>> when empty.
\* `triggered` holds the controls written last, which is what
\* callback_context.triggered shows to the callbacks they trigger.
DefaultControls ==
    [operation |-> "none", scaling |-> "original", view |-> "map",
     shape |-> "circle", num_arrows |-> <<32>>,
     display_options |-> DefaultDisplayOptions, triggered |-> {}]

\* every matrix input starts as the identity
DefaultMatrixValues == [m \in MatrixIds |-> Eye]

EmptyPlotData ==
    [unmapped_points |-> <<>>, mapped_points |-> <<>>, unmapped_arrows |-> <<>>,
     mapped_arrows |-> <<>>, unmapped_ref_arrows |-> <<>>,
     mapped_ref_arrows |-> <<>>]
\* a graph or a text that no callback has filled yet
NoFigure == [plot_data |-> EmptyPlotData, display_options |-> {},
             unmapped_arrows |-> NoArrows, mapped_arrows |-> NoArrows,
             unmapped_reference |-> NoArrows, mapped_reference |-> NoArrows,
             unmapped_outline |-> <<>>, mapped_outline |-> <<>>,
             xaxis_range |-> <<>>, yaxis_range |-> <<>>]
NoInfo == [operation_name |-> <<"", "", "">>, matrix_text |-> <<>>]

NoCall == [fn |-> "", matrix |-> Eye, operation |-> "", scaling |-> "",
           all_plot_data |-> <<>>, shape_type |-> "", num_points |-> 0,
           view_mode |-> "", display_options |-> {}]
NoResult == [done |-> FALSE, again |-> FALSE, matrix |-> Eye, range |-> NoRange,
             points |-> <<>>, plot_data |-> EmptyPlotData, figure |-> NoFigure]

-----------------------------------------------------------------------------
(* The callback graph of src/callbacks.py.  A callback is triggered when one *)
(* of its Inputs is written; `pending` holds the triggered callbacks, `arg`  *)
(* is the id callback_context.triggered carries ("" when it is not a button) *)
(* The browser sends a triggered callback to the server with the values its  *)
(* Inputs and States have at that moment, and writes the Outputs when the    *)
(* answer arrives.  For the callbacks that return a store written from a     *)
(* State (update_display_matrix, save_display_{d}_settings) the model keeps  *)
(* the request `in_flight` between the two; the others answer in one step.   *)
(* A callback triggered again has its older request dropped, be it pending   *)
(* or in flight: the newer request takes its place.                          *)
(* update_display_info and update_displays read the stores and the matrix    *)
(* inputs and write the texts and graphs only; every write of a store or of  *)
(* a matrix input triggers them.  Spec follows the callbacks that carry the  *)
(* settings, SpecRender the two that render.                                 *)

Cb(name, arg) == [cb |-> name, arg |-> arg]

SaveCallbacks == {Cb("save_display_settings", d) : d \in DisplayIds}
RenderCallbacks ==
    {Cb("update_display_info", d) : d \in DisplayIds}
        \cup {Cb("update_displays", "")}
OnActiveDisplay ==
    {Cb("update_button_styles", ""), Cb("update_matrix_button_styles", ""),
     Cb("load_display_settings", "")}

FlightCallbacks == SaveCallbacks \cup {Cb("update_display_matrix", "")}

\* what a request carries: the Inputs and States of its callback
NoRequest == [sent |-> FALSE, active_display |-> "", trigger |-> <<>>,
              controls |-> DefaultControls, settings_data |-> <<>>]

\* the requests left once the callbacks `triggered` are triggered anew
Superseded(triggered) ==
    [c \in FlightCallbacks |->
        IF c \in triggered THEN NoRequest ELSE in_flight[c]]

\* callback c is requested and answered; its Outputs trigger `triggered`
Run(c, triggered) ==
    /\ c \in pending
    /\ pending' = {p \in pending \ {c} : \A t \in triggered : t.cb # p.cb}
                    \cup triggered
    /\ in_flight' = Superseded(triggered)

\* callback c is requested with the values `request`
Request(c, request) ==
    /\ c \in pending
    /\ pending' = pending \ {c}
    /\ in_flight' = [in_flight EXCEPT ![c] = request]

\* the answer to the request of callback c arrives
Answer(c) ==
    /\ in_flight[c].sent
    /\ in_flight' = [in_flight EXCEPT ![c] = NoRequest]
    /\ UNCHANGED pending

\* faulty variant of update_button_styles: i == active_display
update_button_styles_inverted ==
    /\ Run(Cb("update_button_styles", ""), {})
    /\ display_outline' = [d \in DisplayIds |-> d = active_display]
    /\ UNCHANGED <<active_display, settings, controls, temp_trigger,
                   matrix_values, matrix_outline, figures, info, events,
                   call, result>>

\* update_button_styles
update_button_styles ==
    /\ Run(Cb("update_button_styles", ""), {})
    /\ display_outline' = [d \in DisplayIds |-> d # active_display]
    /\ UNCHANGED <<active_display, settings, controls, temp_trigger,
                   matrix_values, matrix_outline, figures, info, events,
                   call, result>>

\* update_active_display, triggered by the button display-{arg}-btn
update_active_display(arg) ==
    /\ Run(Cb("update_active_display", arg), OnActiveDisplay)
    /\ active_display' = IF arg = "" THEN active_display ELSE arg
    /\ UNCHANGED <<settings, controls, temp_trigger, matrix_values,
                   display_outline, matrix_outline, figures, info, events,
                   call, result>>

\* update_matrix_button_styles, triggered by matrix-{arg}-btn or active-display
update_matrix_button_styles(arg) ==
    /\ Run(Cb("update_matrix_button_styles", arg), {})
    /\ LET stored == SettingsMatrix(settings[ToInt[active_display]])
           selected_matrix == IF arg \in MatrixIds THEN arg ELSE stored
       IN  matrix_outline' = [m \in MatrixIds |-> m # selected_matrix]
    /\ UNCHANGED <<active_display, settings, controls, temp_trigger,
                   matrix_values, display_outline, figures, info, events,
                   call, result>>

\* handle_matrix_button_click: temp-trigger = f"{active_display}:{matrix_id}"
handle_matrix_button_click(arg) ==
    /\ Run(Cb("handle_matrix_button_click", arg),
           {Cb("update_display_matrix", "")})
    /\ temp_trigger' = <<active_display, arg>>
    /\ UNCHANGED <<active_display, settings, controls, matrix_values,
                   display_outline, matrix_outline, figures, info, events,
                   call, result>>

\* the four stores as update_display_matrix returns them
display_matrix_settings(trigger, settings_data) ==
    [settings_data EXCEPT ![ToInt[trigger[1]]].matrix = trigger[2]]

\* update_display_matrix is sent: Input temp-trigger, States the four stores
update_display_matrix_request ==
    /\ Request(Cb("update_display_matrix", ""),
               [NoRequest EXCEPT !.sent = TRUE, !.trigger = temp_trigger,
                                 !.settings_data = settings])
    /\ UNCHANGED <<active_display, settings, controls, temp_trigger,
                   matrix_values, display_outline, matrix_outline, figures,
                   info, events, call, result>>

\* update_display_matrix answers
update_display_matrix ==
    /\ Answer(Cb("update_display_matrix", ""))
    /\ LET request == in_flight[Cb("update_display_matrix", "")]
       IN  IF request.trigger # <<>>
           THEN settings' = display_matrix_settings(request.trigger,
                                                    request.settings_data)
           ELSE UNCHANGED settings
    /\ UNCHANGED <<active_display, controls, temp_trigger, matrix_values,
                   display_outline, matrix_outline, figures, info, events,
                   call, result>>

\* load_display_settings
load_display_settings ==
    /\ Run(Cb("load_display_settings", ""), SaveCallbacks)
    /\ LET s == settings[ToInt[active_display]]
       IN  controls' = [operation |-> s.operation, scaling |-> s.scaling,
                        view |-> s.view, shape |-> s.shape,
                        num_arrows |-> <<s.num_arrows>>,
                        display_options |-> s.display_options,
                        triggered |-> {"operation-dropdown", "scaling-dropdown",
                                       "view-dropdown", "shape-dropdown",
                                       "num-arrows-input", "display-options"}]
    /\ UNCHANGED <<active_display, settings, temp_trigger, matrix_values,
                   display_outline, matrix_outline, figures, info, events,
                   call, result>>

\* faulty variant of saved_settings: an empty number input is stored as 0
saved_settings_without_default(current_settings, c) ==
    [current_settings EXCEPT
        !.operation = c.operation,
        !.scaling = c.scaling,
        !.view = c.view,
        !.shape = c.shape,
        !.num_arrows = IF c.num_arrows # <<>> THEN c.num_arrows[1] ELSE 0,
        !.display_options = c.display_options]

\* current_settings after save_display_{d}_settings's update(...)
saved_settings(current_settings, c) ==
    [current_settings EXCEPT
        !.operation = c.operation,
        !.scaling = c.scaling,
        !.view = c.view,
        !.shape = c.shape,
        !.num_arrows = IF c.num_arrows # <<>> /\ c.num_arrows[1] # 0
                       THEN c.num_arrows[1] ELSE 12,
        !.display_options = c.display_options]

\* whether save_display_{d}_settings goes on (it raises PreventUpdate if not)
save_allowed(d, active) == active = d

\* save_display_{d}_settings is sent: Inputs the six controls, States
\* active-display and the store of display d.  For a display that is not
\* the active one the answer is PreventUpdate whenever it arrives.
save_display_settings_request(d) ==
    /\ IF save_allowed(d, active_display)
       THEN Request(Cb("save_display_settings", d),
                    [NoRequest EXCEPT !.sent = TRUE,
                                      !.active_display = active_display,
                                      !.controls = controls,
                                      !.settings_data = <<settings[ToInt[d]]>>])
       ELSE Run(Cb("save_display_settings", d), {})
    /\ UNCHANGED <<active_display, settings, controls, temp_trigger,
                   matrix_values, display_outline, matrix_outline, figures,
                   info, events, call, result>>

\* save_display_1_settings .. save_display_4_settings answer
save_display_settings(d) ==
    /\ Answer(Cb("save_display_settings", d))
    /\ LET request == in_flight[Cb("save_display_settings", d)]
       IN  IF save_allowed(d, request.active_display)
           THEN settings' = [settings EXCEPT ![ToInt[d]] =
                    saved_settings(request.settings_data[1], request.controls)]
           ELSE UNCHANGED settings
    /\ UNCHANGED <<active_display, controls, temp_trigger, matrix_values,
                   display_outline, matrix_outline, figures, info, events,
                   call, result>>

\* update_display_info of display d
update_display_info(d) ==
    /\ Run(Cb("update_display_info", d), {})
    /\ info' = [info EXCEPT
                    ![ToInt[d]] = display_info(settings[ToInt[d]], matrix_values)]
    /\ UNCHANGED <<active_display, settings, controls, temp_trigger,
                   matrix_values, display_outline, matrix_outline, figures,
                   events, call, result>>

\* update_displays
update_displays ==
    /\ Run(Cb("update_displays", ""), {})
    /\ figures' = displays(matrix_values, settings)
    /\ UNCHANGED <<active_display, settings, controls, temp_trigger,
                   matrix_values, display_outline, matrix_outline, info,
                   events, call, result>>

-----------------------------------------------------------------------------
(* User events.  The values a user picks are drawn from small sets. *)

MaxEvents == 3

\* the buttons the user clicks
UiDisplays   == {"1", "2"}
UiMatrices   == {"A", "B"}
\* the controls the user changes: a dropdown (the save callbacks copy the
\* four dropdowns alike), the number input and the checklist
UiOperations == {"none", "transpose"}
\* num-arrows-input (min=4, max=100): a valid number, or empty
UiNumArrows  == {<<>>, <<4>>}
UiToggles    == {"show_mapped_reference"}

UserEvent(triggered) ==
    /\ events < MaxEvents
    /\ events' = events + 1
    /\ pending' = {p \in pending : \A t \in triggered : t.cb # p.cb}
                    \cup triggered
    /\ in_flight' = Superseded(triggered)

\* a click on display-{d}-btn
ClickDisplay(d) ==
    /\ UserEvent({Cb("update_active_display", d)})
    /\ UNCHANGED <<active_display, settings, controls, temp_trigger,
                   matrix_values, display_outline, matrix_outline, figures,
                   info, call, result>>

\* a click on matrix-{m}-btn
ClickMatrix(m) ==
    /\ UserEvent({Cb("update_matrix_button_styles", m),
                  Cb("handle_matrix_button_click", m)})
    /\ UNCHANGED <<active_display, settings, controls, temp_trigger,
                   matrix_values, display_outline, matrix_outline, figures,
                   info, call, result>>

\* the user changes one of the sidebar controls
ChangeControl ==
    /\ \/ \E v \in UiOperations \ {controls.operation} :
            controls' = [controls EXCEPT !.operation = v,
                                         !.triggered = {"operation-dropdown"}]
       \/ \E v \in UiNumArrows \ {controls.num_arrows} :
            controls' = [controls EXCEPT !.num_arrows = v,
                                         !.triggered = {"num-arrows-input"}]
       \/ \E o \in UiToggles :
            controls' = [controls EXCEPT !.display_options =
                            IF o \in @ THEN @ \ {o} ELSE @ \cup {o},
                                         !.triggered = {"display-options"}]
    /\ UserEvent(SaveCallbacks)
    /\ UNCHANGED <<active_display, settings, temp_trigger, matrix_values,
                   display_outline, matrix_outline, figures, info, call,
                   result>>

-----------------------------------------------------------------------------
(* The application: the page as laid out, its first callbacks done *)

Init ==
    /\ active_display = "1"
    /\ settings = [i \in 1..4 |-> DefaultSettings]
    /\ controls = DefaultControls
    /\ temp_trigger = <<>>
    /\ matrix_values = DefaultMatrixValues
    /\ pending = {}
    /\ in_flight = [c \in FlightCallbacks |-> NoRequest]
    /\ display_outline = [d \in DisplayIds |-> d # "1"]
    /\ matrix_outline = [m \in MatrixIds |-> m # "A"]
    /\ figures = [i \in 1..4 |-> NoFigure]
    /\ info = [i \in 1..4 |-> NoInfo]
    /\ events = 0
    /\ call = NoCall
    /\ result = NoResult

Next ==
    \/ \E d \in UiDisplays : ClickDisplay(d)
    \/ \E m \in UiMatrices : ClickMatrix(m)
    \/ ChangeControl
    \/ update_button_styles
    \/ \E d \in DisplayIds : update_active_display(d)
    \/ \E m \in MatrixIds \cup {""} : update_matrix_button_styles(m)
    \/ \E m \in MatrixIds : handle_matrix_button_click(m)
    \/ update_display_matrix_request
    \/ update_display_matrix
    \/ load_display_settings
    \/ \E d \in DisplayIds : save_display_settings_request(d)
    \/ \E d \in DisplayIds : save_display_settings(d)

Spec == Init /\ [][Next]_vars

-----------------------------------------------------------------------------
(* Rendering alone: the stores and matrix inputs hold values drawn from the  *)
(* sets below, and one of the rendering callbacks has been triggered.        *)

M4(a, b, c, d) == <<a, b, c, d>>

RenderMatrixValues ==
    {[m \in MatrixIds |->
        CASE m = "A" -> Eye
          [] m = "B" -> M4(Zero, Num(-1), One, Zero)
          [] m = "C" -> M4(Num(2), Zero, Zero, Num(3))
          [] m = "D" -> M4(One, Num(2), Num(2), Num(4))],
     [m \in MatrixIds |->
        CASE m = "A" -> M4(One, One, One, One)
          [] m = "B" -> M4(Zero, Zero, Zero, Zero)
          [] m = "C" -> M4(None, Num(2), None, None)
          [] m = "D" -> M4(Num(3), Zero, Num(4), Zero)],
     [m \in MatrixIds |->
        CASE m = "A" -> M4(Half, Zero, Zero, Half)
          [] m = "B" -> M4(One, One, Zero, One)
          [] m = "C" -> M4(None, None, None, None)
          [] m = "D" -> M4(Zero, Zero, Zero, Q(-3, 2))]}

\* the store of a display set up with the given choices
Setting(matrix, operation, scaling, view, shape, num_arrows) ==
    [operation |-> operation, scaling |-> scaling, view |-> view,
     shape |-> shape, num_arrows |-> num_arrows,
     display_options |-> DefaultDisplayOptions, matrix |-> matrix]

Views  == {"map", "difference", "normal"}
ShapeCounts ==
    ({"circle"} \X {4, 5, 8, 12, 32}) \cup ({"square"} \X {4, 5, 7})
        \cup ({"hexagon"} \X {6, 7, 13}) \cup ({"triangle"} \X {6})

\* one display over every matrix, operation and scaling
MatrixSettings ==
    {Setting(m, op, sc, "map", "square", 4) :
        m \in MatrixIds \cup {""}, op \in Operations, sc \in Scalings}
\* one display over every shape and view
ShapeSettings ==
    {Setting(t[1], t[2], t[3], v, sn[1], sn[2]) :
        t \in {<<"", "none", "original">>, <<"D", "none", "doubled">>,
               <<"C", "inverse", "original">>},
        v \in Views, sn \in ShapeCounts}
\* the four displays over a few stores each
MixedSettings ==
    {Setting("", "none", "original", "map", "circle", 4),
     Setting("D", "none", "original", "normal", "hexagon", 6),
     Setting("B", "cubed", "halved", "difference", "hexagon", 6),
     Setting("C", "inverse", "determinant", "map", "circle", 5)}

RenderSettings ==
    {[i \in 1..4 |-> IF i = 1 THEN s ELSE DefaultSettings] :
        s \in MatrixSettings \cup ShapeSettings}
    \cup [1..4 -> MixedSettings]

\* the stores on which the model's exact arithmetic can follow the program
SettingExact(s, values) ==
    LET cells == values[SettingsMatrix(s)]
    IN  /\ ShapeExact(s.shape, s.num_arrows)
        /\ \A base \in {get_matrix_from_values(cells), info_base_matrix(cells)} :
              /\ OperationExact(base, s.operation)
              /\ \A operated \in {apply_operation(base, s.operation)} :
                    ScalingExact(operated, s.scaling)

\* the matrix inputs and stores the rendering callbacks are run on
RenderInputs ==
    {input \in RenderMatrixValues \X RenderSettings :
        \A i \in 1..4 : SettingExact(input[2][i], input[1])}

\* the callbacks a write triggers: one of them, or update_displays together
\* with the update_display_info of the first display
RenderPending ==
    {{c} : c \in RenderCallbacks}
        \cup {{Cb("update_displays", ""), Cb("update_display_info", "1")}}

InitRender ==
    /\ \E input \in RenderInputs :
          /\ matrix_values = input[1]
          /\ settings = input[2]
    /\ active_display = "1"
    /\ controls = DefaultControls
    /\ temp_trigger = <<>>
    /\ pending \in RenderPending
    /\ in_flight = [c \in FlightCallbacks |-> NoRequest]
    /\ display_outline = [d \in DisplayIds |-> d # "1"]
    /\ matrix_outline = [m \in MatrixIds |-> m # "A"]
    /\ figures = [i \in 1..4 |-> NoFigure]
    /\ info = [i \in 1..4 |-> NoInfo]
    /\ events = 0
    /\ call = NoCall
    /\ result = NoResult

NextRender ==
    \/ \E d \in DisplayIds : update_display_info(d)
    \/ update_displays

SpecRender == InitRender /\ [][NextRender]_vars

-----------------------------------------------------------------------------
(* Direct calls of the pure parts: apply_operation, apply_scaling, and the   *)
(* axis range update_displays computes from a list of plot data.             *)

CallCells == {Num(-1), Zero, Half, One, Num(2)}
CallMatrices == {M4(a, b, c, d) : a \in CallCells, b \in CallCells,
                                  c \in CallCells, d \in CallCells}

\* matrices with det = 0 whose second pivot is not computed as 0
CallSingular ==
    {M4(Num(49), Num(49), One, One),
     M4(Num(12544), Num(12544), Num(256), Num(256))}
\* those whose powers stay within the model's integers
CallOperands == CallMatrices \cup {M4(Num(49), Num(49), One, One)}

MaxPanels == 2

CallPoints == {<<>>, <<<<Zero, Zero>>>>, <<<<Num(-1), Num(-1)>>>>,
               <<<<Num(3), Num(3)>>>>, <<<<One, Zero>>, <<Zero, One>>>>,
               <<<<Q(-5, 2), Half>>>>}
CallRefArrows == {<<>>, <<<<Zero, Zero, Zero, Zero>>, <<Zero, Zero, Zero, Num(2)>>>>}
CallPlotData ==
    {[EmptyPlotData EXCEPT !.unmapped_points = u, !.mapped_points = m,
                           !.mapped_ref_arrows = r] :
        u \in CallPoints, m \in {<<>>, <<<<Num(3), Num(3)>>>>, <<<<Q(-5, 2), Half>>>>},
        r \in CallRefArrows}
CallPlotDataLists ==
    UNION {[1..n -> CallPlotData] : n \in 0..MaxPanels}

\* the point counts of the calls
MaxPoints == 13
\* shape kinds and point counts: every count for the polygons, the tabled
\* ones for the circle and for a shape kind the function does not know
CallShapes ==
    ({"square", "hexagon"} \X (0..MaxPoints))
        \cup ({"circle", "triangle"} \X CircleCounts)
\* those update_displays can pass on (a figure needs a point)
PlotShapes == {sn \in CallShapes : sn[2] >= 1 /\ sn[2] <= 12}
PlotMatrices ==
    {Eye, M4(Zero, Num(-1), One, Zero), M4(Num(2), Half, Num(-1), Num(3)),
     M4(One, Num(2), Num(2), Num(4)), M4(Zero, One, Zero, Num(2))}
PlotViews == {"map", "difference", "normal", "other"}
PlotOptions ==
    {{}, {"show_unmapped_outline"}, {"show_mapped_outline"},
     DefaultDisplayOptions, {"show_unmapped_reference", "show_mapped_reference"},
     AllDisplayOptions}

InitCalls ==
    /\ active_display = "1"
    /\ settings = [i \in 1..4 |-> DefaultSettings]
    /\ controls = DefaultControls
    /\ temp_trigger = <<>>
    /\ matrix_values = DefaultMatrixValues
    /\ pending = {}
    /\ in_flight = [c \in FlightCallbacks |-> NoRequest]
    /\ display_outline = [d \in DisplayIds |-> d # "1"]
    /\ matrix_outline = [m \in MatrixIds |-> m # "A"]
    /\ figures = [i \in 1..4 |-> NoFigure]
    /\ info = [i \in 1..4 |-> NoInfo]
    /\ events = 0
    /\ result = NoResult
    /\ \/ \E m \in CallOperands, op \in Operations :
            /\ OperationExact(m, op)
            /\ call = [NoCall EXCEPT !.fn = "apply_operation", !.matrix = m,
                                     !.operation = op]
       \/ \E m \in CallMatrices \cup CallSingular, sc \in Scalings :
            /\ ScalingExact(m, sc)
            /\ call = [NoCall EXCEPT !.fn = "apply_scaling", !.matrix = m,
                                     !.scaling = sc]
       \/ \E l \in CallPlotDataLists :
            call = [NoCall EXCEPT !.fn = "global_axis_range",
                                  !.all_plot_data = l]
       \/ \E sn \in CallShapes :
            call = [NoCall EXCEPT !.fn = "generate_shape_points",
                                  !.shape_type = sn[1], !.num_points = sn[2]]
       \/ \E m \in PlotMatrices, sn \in PlotShapes, v \in PlotViews,
              o \in PlotOptions :
            call = [NoCall EXCEPT !.fn = "prepare_plot_data", !.matrix = m,
                                  !.shape_type = sn[1], !.num_points = sn[2],
                                  !.view_mode = v, !.display_options = o]

Return(value) ==
    /\ ~result.done
    /\ result' = value
    /\ UNCHANGED <<active_display, settings, controls, temp_trigger,
                   matrix_values, pending, in_flight, display_outline,
                   matrix_outline, figures, info, events, call>>

CallApplyOperation ==
    /\ call.fn = "apply_operation"
    /\ Return([NoResult EXCEPT !.done = TRUE,
                 !.matrix = apply_operation(call.matrix, call.operation)])

\* the inverse that was returned is inverted again
CallInverseOfInverse ==
    /\ call.fn = "apply_operation"
    /\ call.operation = "inverse"
    /\ result.done
    /\ ~result.again
    /\ IsMatrix(result.matrix)
    /\ result' = [result EXCEPT !.again = TRUE,
                      !.matrix = apply_operation(result.matrix, "inverse")]
    /\ UNCHANGED <<active_display, settings, controls, temp_trigger,
                   matrix_values, pending, in_flight, display_outline,
                   matrix_outline, figures, info, events, call>>

CallApplyScaling ==
    /\ call.fn = "apply_scaling"
    /\ Return([NoResult EXCEPT !.done = TRUE,
                 !.matrix = apply_scaling(call.matrix, call.scaling)])

CallAxisRange ==
    /\ call.fn = "global_axis_range"
    /\ Return([NoResult EXCEPT !.done = TRUE,
                 !.range = global_axis_range(all_points(call.all_plot_data, 1),
                                             all_points(call.all_plot_data, 2))])

CallGenerateShapePoints ==
    /\ call.fn = "generate_shape_points"
    /\ Return([NoResult EXCEPT !.done = TRUE,
                 !.points = generate_shape_points(call.shape_type,
                                                  call.num_points)])

CallPreparePlotData ==
    /\ call.fn = "prepare_plot_data"
    /\ Return([NoResult EXCEPT !.done = TRUE,
                 !.plot_data = prepare_plot_data(call.matrix, call.shape_type,
                                                 call.num_points, call.view_mode,
                                                 call.display_options)])

\* the second pass of update_displays on the plot data of the call
CallCreatePlot ==
    /\ call.fn = "prepare_plot_data"
    /\ result.done
    /\ result.figure = NoFigure
    /\ result' = [result EXCEPT !.figure =
                      create_plot(result.plot_data, call.display_options,
                                  global_axis_range(collected(result.plot_data, 1),
                                                    collected(result.plot_data, 2)))]
    /\ UNCHANGED <<active_display, settings, controls, temp_trigger,
                   matrix_values, pending, in_flight, display_outline,
                   matrix_outline, figures, info, events, call>>

NextCalls ==
    \/ CallApplyOperation
    \/ CallInverseOfInverse
    \/ CallApplyScaling
    \/ CallAxisRange
    \/ CallGenerateShapePoints
    \/ CallPreparePlotData
    \/ CallCreatePlot

SpecCalls == InitCalls /\ [][NextCalls]_vars

-----------------------------------------------------------------------------
(* Properties of the rendering callbacks (SpecRender) *)

\* the matrix a figure's geometry was mapped with: its columns are the heads
\* of the mapped reference arrows
FigureMatrix(figure) ==
    LET r == figure.plot_data.mapped_ref_arrows
    IN  <<r[1][3], r[2][3], r[1][4], r[2][4]>>

\* update_displays has returned
Rendered == figures[1] # NoFigure

\* C1: for every display, the matrix its geometry is mapped with and the
\* matrix its text shows are the scaling applied to the result of the
\* operation applied to the base matrix (never the scaling first)
C1_OperationThenScaling ==
    \A i \in 1..4 :
        LET s == settings[i]
            cells == matrix_values[SettingsMatrix(s)]
        IN  /\ figures[i] # NoFigure =>
                FigureMatrix(figures[i]) =
                    apply_scaling(apply_operation(get_matrix_from_values(cells),
                                                  s.operation), s.scaling)
            /\ info[i] # NoInfo =>
                info[i].matrix_text =
                    format_matrix(
                        apply_scaling(apply_operation(info_base_matrix(cells),
                                                      s.operation), s.scaling))

\* a figure mapped with inverse-then-doubled of a matrix on which the other
\* order gives another matrix
C1_Witness ==
    /\ Rendered
    /\ settings[1].operation = "inverse"
    /\ settings[1].scaling = "doubled"
    /\ LET base == get_matrix_from_values(matrix_values[SettingsMatrix(settings[1])])
       IN  /\ FigureMatrix(figures[1]) = MScale(np_linalg_inv(base).value, Num(2))
           /\ FigureMatrix(figures[1]) # np_linalg_inv(MScale(base, Num(2))).value

\* the plot data the four figures draw
FiguresPlotData ==
    <<figures[1].plot_data, figures[2].plot_data, figures[3].plot_data,
      figures[4].plot_data>>

\* the range one display alone would be given
OwnRange(i) ==
    global_axis_range(collected(figures[i].plot_data, 1),
                      collected(figures[i].plot_data, 2))

\* C3: the four figures of a render cycle have the same x interval and the
\* same y interval, the one computed from the coordinates of all four
C3_SharedAxisRange ==
    Rendered =>
        LET Same(range) ==
                \A i \in 1..4 : /\ figures[i].xaxis_range = range.x
                                 /\ figures[i].yaxis_range = range.y
        IN  With(global_axis_range(all_points(FiguresPlotData, 1),
                                   all_points(FiguresPlotData, 2)), Same)

\* two displays that alone would be ranged differently share one range
C3_Witness ==
    /\ Rendered
    /\ OwnRange(1) # OwnRange(2)
    /\ figures[1].xaxis_range = figures[2].xaxis_range
    /\ figures[1].yaxis_range = figures[2].yaxis_range
    /\ figures[1].xaxis_range # <<>>

\* v lies strictly inside the interval
StrictlyInside(v, interval) == RLt(interval[1], v) /\ RLt(v, interval[2])

\* C6: with at least 4 points on every display, the axis range has the
\* origin and the heads (1,0), (0,1) of the unmapped reference vectors
\* strictly inside both of its intervals
C6_ReferenceVectorsInside ==
    (Rendered /\ \A i \in 1..4 : settings[i].num_arrows >= 4) =>
        \A i \in 1..4 : \A v \in {Zero, One} :
            /\ StrictlyInside(v, figures[i].xaxis_range)
            /\ StrictlyInside(v, figures[i].yaxis_range)

\* the base matrix of the four cells: a missing cell is the identity's,
\* and the identity stands for four cells that are all 0
CellsOrIdentity(cells) ==
    LET resolved == [k \in 1..4 |-> IF cells[k] = None THEN Eye[k] ELSE cells[k]]
    IN  IF \A k \in 1..4 : resolved[k] = Zero
        THEN <<One, Zero, Zero, One>>
        ELSE <<resolved[1], resolved[2], resolved[3], resolved[4]>>

\* display i shows its base matrix as it is (no operation, no scaling)
ShowsBase(i) ==
    settings[i].operation = "none" /\ settings[i].scaling = "original"

\* C12: the base matrix a display's figure is mapped with, and the one its
\* text shows, is built from the four cells of its matrix with a missing
\* cell replaced by the identity's cell and four zero cells replaced by the
\* identity
C12_BaseMatrixDefaults ==
    \A i \in 1..4 :
        ShowsBase(i) =>
            LET base == CellsOrIdentity(matrix_values[SettingsMatrix(settings[i])])
            IN  /\ figures[i] # NoFigure => FigureMatrix(figures[i]) = base
                /\ info[i] # NoInfo =>
                      info[i].matrix_text =
                          <<<<FormatTenths(base[1]), FormatTenths(base[2])>>,
                            <<FormatTenths(base[3]), FormatTenths(base[4])>>>>

\* the text and the figure of display i have both been rendered
BothRendered(i) == info[i] # NoInfo /\ figures[i] # NoFigure

\* C13: the matrix a display's text shows is the matrix its figure is
\* mapped with in the same state, to one decimal
C13_TextShowsPlottedMatrix ==
    \A i \in 1..4 :
        BothRendered(i) =>
            LET plotted == FigureMatrix(figures[i])
            IN  info[i].matrix_text =
                    <<<<FormatTenths(plotted[1]), FormatTenths(plotted[2])>>,
                      <<FormatTenths(plotted[3]), FormatTenths(plotted[4])>>>>

-----------------------------------------------------------------------------
(* Properties of the axis range (SpecCalls) *)

\* the range of the call has been computed
AxisCall == call.fn = "global_axis_range" /\ result.done

\* the coordinates (c = 1: x, c = 2: y) a panel holds: of its unmapped and
\* mapped points and of the heads of its mapped reference arrows
PanelCoordinates(plot_data, c) ==
    {plot_data.unmapped_points[i][c] : i \in DOMAIN plot_data.unmapped_points}
    \cup {plot_data.mapped_points[i][c] : i \in DOMAIN plot_data.mapped_points}
    \cup {plot_data.mapped_ref_arrows[i][c + 2] :
                i \in DOMAIN plot_data.mapped_ref_arrows}

\* those of all the panels of the call
CallCoordinates(c) ==
    UNION {PanelCoordinates(call.all_plot_data[k], c) :
                k \in DOMAIN call.all_plot_data}

HasCoordinates == CallCoordinates(1) # {} /\ CallCoordinates(2) # {}

\* v lies within the interval, its ends included
Inside(v, interval) ==
    interval # <<>> /\ RLe(interval[1], v) /\ RLe(v, interval[2])

\* C30: the axis range of a render cycle contains every collected
\* coordinate: for every display, the x (y) coordinate of each unmapped
\* point, each returned mapped point and each mapped reference arrow head
\* lies within the x (y) interval the figures are given
C30_RangeContainsCoordinates ==
    Rendered =>
        \A i \in 1..4 : \A k \in 1..4 :
            /\ \A v \in PanelCoordinates(figures[i].plot_data, 1) :
                    Inside(v, figures[k].xaxis_range)
            /\ \A v \in PanelCoordinates(figures[i].plot_data, 2) :
                    Inside(v, figures[k].yaxis_range)

\* the second display, in normal view, has a coordinate that the range of
\* the first display alone would leave out
C30_Witness ==
    /\ Rendered
    /\ settings[2].view = "normal"
    /\ \E v \in PanelCoordinates(figures[2].plot_data, 2) :
            /\ ~Inside(v, OwnRange(1).y)
            /\ Inside(v, figures[1].yaxis_range)

Least(S)    == CHOOSE a \in S : \A b \in S : RLe(a, b)
Greatest(S) == CHOOSE a \in S : \A b \in S : RLe(b, a)

\* max(x_span, y_span) of the coordinates of the call
DataSpan ==
    RMax(RSub(Greatest(CallCoordinates(1)), Least(CallCoordinates(1))),
         RSub(Greatest(CallCoordinates(2)), Least(CallCoordinates(2))))

Midpoint(S) == RDiv(RAdd(Least(S), Greatest(S)), Num(2))

Width(interval) == RSub(interval[2], interval[1])

\* the interval centre -/+ (span / 2 + pad)
Around(centre, span, pad) ==
    <<RSub(RSub(centre, RDiv(span, Num(2))), pad),
      RAdd(RAdd(centre, RDiv(span, Num(2))), pad)>>

\* C4: whenever the panels hold at least one point the axis range is square
\* and at least 2.2 wide; a single point at the origin gives the range
\* [-1.1, 1.1] on both axes, centred at 0
C4_SquareAtLeastMinRange ==
    (AxisCall /\ HasCoordinates) =>
        /\ result.range # NoRange
        /\ Width(result.range.x) = Width(result.range.y)
        /\ RLe(Q(11, 5), Width(result.range.x))
        /\ (CallCoordinates(1) = {Zero} /\ CallCoordinates(2) = {Zero}) =>
                /\ result.range.x = <<Q(-11, 10), Q(11, 10)>>
                /\ result.range.y = <<Q(-11, 10), Q(11, 10)>>

\* the range of a single point at the origin
C4_Witness ==
    /\ AxisCall
    /\ CallCoordinates(1) = {Zero}
    /\ CallCoordinates(2) = {Zero}
    /\ result.range.x = <<Q(-11, 10), Q(11, 10)>>

\* C5 as stated: the padding on each side is 0.05 * span, span being
\* max(x_span, y_span, 2.2): each interval is
\* [centre - span/2 - 0.05 span, centre + span/2 + 0.05 span]
C5_PaddingOfFlooredSpan ==
    (AxisCall /\ HasCoordinates) =>
        LET span == RMax(DataSpan, Q(11, 5))
            pad  == RMul(Q(1, 20), span)
        IN  /\ result.range.x = Around(Midpoint(CallCoordinates(1)), span, pad)
            /\ result.range.y = Around(Midpoint(CallCoordinates(2)), span, pad)

\* C5 amended: the padding on each side is 0.05 * max(x_span, y_span), of
\* the span before the floor; the floor 2.2 enters the half width only
C5_PaddingOfDataSpan ==
    (AxisCall /\ HasCoordinates) =>
        LET span == RMax(DataSpan, Q(11, 5))
            pad  == RMul(Q(1, 20), DataSpan)
        IN  /\ result.range.x = Around(Midpoint(CallCoordinates(1)), span, pad)
            /\ result.range.y = Around(Midpoint(CallCoordinates(2)), span, pad)

\* a range of points whose span lies below the floor
C5_Witness ==
    /\ AxisCall
    /\ HasCoordinates
    /\ RLt(Zero, DataSpan)
    /\ RLt(DataSpan, Q(11, 5))
    /\ Width(result.range.x) = RAdd(Q(11, 5), RMul(Q(1, 10), DataSpan))

\* C7: the range is None exactly when no panel holds a coordinate
C7_NoneOnlyWithoutPoints ==
    AxisCall =>
        (result.range = NoRange <=>
            (CallCoordinates(1) = {} /\ CallCoordinates(2) = {}))

\* panels without any point: no range
C7_Witness ==
    /\ AxisCall
    /\ Len(call.all_plot_data) = 2
    /\ ~HasCoordinates
    /\ result.range = NoRange

\* a panel whose only point is p
PanelOf(p) == [EmptyPlotData EXCEPT !.unmapped_points = <<p>>]

\* the points (-1,-1) and (3,3), held by two panels
TwoPanelExample ==
    call.all_plot_data =
        <<PanelOf(<<Num(-1), Num(-1)>>), PanelOf(<<Num(3), Num(3)>>)>>

\* C8: on each axis the centre of the range is the midpoint of the least
\* and the greatest coordinate over all panels, whatever the floor and the
\* padding; (-1,-1) and (3,3) of two panels give the centre (1,1) and the
\* half width 2 (plus the padding 0.2)
C8_CentreIsMidpoint ==
    (AxisCall /\ HasCoordinates) =>
        /\ RDiv(RAdd(result.range.x[1], result.range.x[2]), Num(2))
                = Midpoint(CallCoordinates(1))
        /\ RDiv(RAdd(result.range.y[1], result.range.y[2]), Num(2))
                = Midpoint(CallCoordinates(2))
        /\ TwoPanelExample =>
                /\ result.range.x = Around(One, Num(4), Q(1, 5))
                /\ result.range.y = Around(One, Num(4), Q(1, 5))

\* the range of (-1,-1) and (3,3) of two panels
C8_Witness ==
    /\ AxisCall
    /\ TwoPanelExample
    /\ result.range.x = <<Q(-6, 5), Q(16, 5)>>
    /\ result.range.y = <<Q(-6, 5), Q(16, 5)>>

-----------------------------------------------------------------------------
(* Properties of apply_operation and apply_scaling (SpecCalls) *)

\* C9: apply_operation(M, "inverse") is the identity for every M with
\* det(M) = 0 and the inverse of M for every other M
C9_InverseOrIdentity ==
    (/\ call.fn = "apply_operation"
     /\ call.operation = "inverse"
     /\ result.done
     /\ ~result.again)
        => IF Det(call.matrix) = Zero
           THEN result.matrix = Eye
           ELSE /\ MMul(call.matrix, result.matrix) = Eye
                /\ MMul(result.matrix, call.matrix) = Eye

\* |det| <= 1e-10 of the exact determinant n/d:  |n| * 10^10 <= d
DetAtMostThreshold(det) == Abs(det[1]) * 100000 <= det[2] \div 100000

\* C10: apply_scaling(M, "determinant") is M for every M with
\* |det(M)| <= 1e-10, det(M) = 0 among them, and M / det(M) for every other
C10_DeterminantScaling ==
    (call.fn = "apply_scaling" /\ call.scaling = "determinant" /\ result.done)
        => IF DetAtMostThreshold(Det(call.matrix))
           THEN result.matrix = call.matrix
           ELSE result.matrix = MDiv(call.matrix, Det(call.matrix))

NormalizedCall ==
    call.fn = "apply_scaling" /\ call.scaling = "normalized" /\ result.done

\* r is m multiplied by a positive number
PositiveMultiple(r, m) ==
    /\ \A i \in 1..4, j \in 1..4 : RMul(r[i], m[j]) = RMul(r[j], m[i])
    /\ \A i \in 1..4 : RLe(Zero, RMul(r[i], m[i]))
    /\ \A i \in 1..4 : (r[i] = Zero) <=> (m[i] = Zero)

\* C11: apply_scaling(M, "normalized") returns M when M is the zero matrix
\* (norm 0); otherwise it returns a positive multiple of M, the squares of
\* whose four entries sum to 1
C11_NormalizedHasNormOne ==
    NormalizedCall =>
        IF \A i \in 1..4 : call.matrix[i] = Zero
        THEN result.matrix = call.matrix
        ELSE /\ PositiveMultiple(result.matrix, call.matrix)
             /\ RAdd(RAdd(RMul(result.matrix[1], result.matrix[1]),
                         RMul(result.matrix[2], result.matrix[2])),
                    RAdd(RMul(result.matrix[3], result.matrix[3]),
                         RMul(result.matrix[4], result.matrix[4]))) = One

\* [[2, 1], [2, 0]] has the norm 3 and is returned as [[2/3, 1/3], [2/3, 0]]
C11_Witness ==
    /\ NormalizedCall
    /\ call.matrix = M4(Num(2), One, Num(2), Zero)
    /\ result.matrix = M4(Q(2, 3), Q(1, 3), Q(2, 3), Zero)

-----------------------------------------------------------------------------
(* Properties of generate_shape_points (SpecCalls) *)

\* generate_shape_points(call.shape_type, call.num_points) has returned
ShapeCall == call.fn = "generate_shape_points" /\ result.done

\* the least number of points of a shape kind
MinimumPoints(shape_type) ==
    CASE shape_type = "square" -> 4 [] shape_type = "hexagon" -> 6 [] OTHER -> 0

\* C14: generate_shape_points returns max(num_points, minimum) points, the
\* minimum being 4 for the square and 6 for the hexagon, and num_points
\* points for the circle and for any other shape kind
C14_PointCount ==
    ShapeCall =>
        Len(result.points) =
            IF call.num_points > MinimumPoints(call.shape_type)
            THEN call.num_points ELSE MinimumPoints(call.shape_type)

\* a square asked for with 2 points has 4, a hexagon asked for with 7 has 7
C14_Witness ==
    /\ ShapeCall
    /\ call.shape_type = "square"
    /\ call.num_points = 2
    /\ Len(result.points) = 4

\* the corners of a shape kind, in the order of its edges
CornersOf(shape_type) ==
    IF shape_type = "square"
    THEN <<<<Num(-1), Num(-1)>>, <<One, Num(-1)>>, <<One, One>>, <<Num(-1), One>>>>
    ELSE HexagonCorners

\* the number of points edge i = 0.. of a polygon of n points carries
EdgeShare(n, sides, i) == (n \div sides) + (IF i < n % sides THEN 1 ELSE 0)
\* the number of points the edges before edge i carry
EdgeOffset(n, sides, i) ==
    i * (n \div sides) + (IF i < n % sides THEN i ELSE n % sides)

\* the j-th of m points on the edge from start to end
EdgePoint(start, end, j, m) ==
    <<RAdd(start[1], RMul(Q(j, m), RSub(end[1], start[1]))),
      RAdd(start[2], RMul(Q(j, m), RSub(end[2], start[2])))>>

\* C15: the n = max(num_points, 4) points of a square run edge by edge from
\* the corner (-1,-1) over (1,-1), (1,1) to (-1,1); edge i carries n div 4
\* points and one more iff i < n mod 4, the j-th of its m points being
\* start + (j/m) * (end - start); likewise the hexagon with its 6 edges
C15_EdgeByEdge ==
    (ShapeCall /\ call.shape_type \in {"square", "hexagon"}) =>
        LET corners == CornersOf(call.shape_type)
            sides   == Len(corners)
            n       == IF call.num_points > sides THEN call.num_points ELSE sides
        IN  /\ Len(result.points) = n
            /\ \A i \in 0..(sides - 1) :
                  \A j \in 0..(EdgeShare(n, sides, i) - 1) :
                      result.points[EdgeOffset(n, sides, i) + j + 1] =
                          EdgePoint(corners[i + 1], corners[((i + 1) % sides) + 1],
                                    j, EdgeShare(n, sides, i))

\* 5 points on a square: two on the first edge, one on each other edge
C15_Witness ==
    /\ ShapeCall
    /\ call.shape_type = "square"
    /\ call.num_points = 5
    /\ result.points = <<<<Num(-1), Num(-1)>>, <<Zero, Num(-1)>>, <<One, Num(-1)>>,
                          <<One, One>>, <<Num(-1), One>>>>

\* prepare_plot_data has returned the plot data of the call
PlotCall == call.fn = "prepare_plot_data" /\ result.done
\* create_plot has drawn them
Plotted == PlotCall /\ result.figure # NoFigure

\* the line through the points that ends where it starts
ClosedOutline(points) ==
    [k \in 1..(Len(points) + 1) |->
        IF k <= Len(points) THEN points[k] ELSE points[1]]

\* C16: in the points of a square or hexagon every corner occurs once, as
\* the first point of the edge starting at it, no two points are equal and
\* the last point is not the first; the points a figure keeps are these, and
\* only the line of a rendered outline repeats point 0 at its end
C16_CornersOnceNotClosed ==
    /\ (ShapeCall /\ call.shape_type \in {"square", "hexagon"}) =>
            LET corners == CornersOf(call.shape_type)
                sides   == Len(corners)
                n       == Len(result.points)
            IN  /\ \A i \in 0..(sides - 1) :
                      {k \in 1..n : result.points[k] = corners[i + 1]} =
                          {EdgeOffset(n, sides, i) + 1}
                /\ \A k \in 1..n, l \in 1..n :
                      k # l => result.points[k] # result.points[l]
                /\ result.points[n] # result.points[1]
    /\ (Plotted /\ call.shape_type \in {"square", "hexagon"}) =>
            LET unmapped == result.plot_data.unmapped_points
                mapped   == result.plot_data.mapped_points
                n        == IF call.num_points > Len(CornersOf(call.shape_type))
                            THEN call.num_points
                            ELSE Len(CornersOf(call.shape_type))
            IN  /\ Len(unmapped) = n
                /\ Len(mapped) = n
                /\ unmapped[n] # unmapped[1]
                /\ result.figure.unmapped_outline =
                      IF "show_unmapped_outline" \in call.display_options
                      THEN ClosedOutline(unmapped) ELSE <<>>
                /\ result.figure.mapped_outline =
                      IF "show_mapped_outline" \in call.display_options
                      THEN ClosedOutline(mapped) ELSE <<>>

\* a square of 5 points drawn with its outline: a line of 6 points
C16_Witness ==
    /\ Plotted
    /\ call.shape_type = "square"
    /\ call.num_points = 5
    /\ "show_unmapped_outline" \in call.display_options
    /\ Len(result.plot_data.unmapped_points) = 5
    /\ Len(result.figure.unmapped_outline) = 6
    /\ result.figure.unmapped_outline[6] = <<Num(-1), Num(-1)>>

-----------------------------------------------------------------------------
(* Properties of prepare_plot_data (SpecCalls) *)

\* the matrix m = [[m11, m12], [m21, m22]] times the column vector p
Times(m, p) ==
    <<RAdd(RMul(m[1], p[1]), RMul(m[2], p[2])),
      RAdd(RMul(m[3], p[1]), RMul(m[4], p[2]))>>

\* the points of the shape of the call
RawPoints == generate_shape_points(call.shape_type, call.num_points)
PointIndices == 1..Len(RawPoints)

\* the arrow from tail to head
Arrow(tail, head) == <<tail[1], tail[2], head[1], head[2]>>
Origin == <<Zero, Zero>>
Sum(p, q) == <<RAdd(p[1], q[1]), RAdd(p[2], q[2])>>

\* the lists of the plot data have one entry for each point of the shape
OnePerPoint ==
    /\ Len(result.plot_data.unmapped_points) = Len(RawPoints)
    /\ Len(result.plot_data.mapped_points) = Len(RawPoints)
    /\ Len(result.plot_data.unmapped_arrows) = Len(RawPoints)
    /\ Len(result.plot_data.mapped_arrows) = Len(RawPoints)

Rotation90 == <<Zero, Num(-1), One, Zero>>
Sheared == <<Num(2), Half, Num(-1), Num(3)>>

\* C17: in map view mapped point i is the matrix times unmapped point i
\* (x' = m11 x + m12 y, y' = m21 x + m22 y), in the order of the unmapped
\* points; the identity leaves the points as they are
C17_MappedIsMatrixTimesPoint ==
    (PlotCall /\ call.view_mode = "map") =>
        /\ Len(result.plot_data.mapped_points) =
              Len(result.plot_data.unmapped_points)
        /\ \A i \in 1..Len(result.plot_data.unmapped_points) :
              result.plot_data.mapped_points[i] =
                  Times(call.matrix, result.plot_data.unmapped_points[i])
        /\ call.matrix = <<One, Zero, Zero, One>> =>
              result.plot_data.mapped_points = result.plot_data.unmapped_points

\* [[0,-1],[1,0]] sends the point (1,0) of a circle of 4 points to (0,1)
C17_Witness ==
    /\ PlotCall
    /\ call.view_mode = "map"
    /\ call.matrix = Rotation90
    /\ call.shape_type = "circle"
    /\ call.num_points = 4
    /\ result.plot_data.unmapped_points[1] = <<One, Zero>>
    /\ result.plot_data.mapped_points[1] = <<Zero, One>>

\* C18: in map view unmapped arrow i runs from the origin to point i of the
\* shape and mapped arrow i from the origin to the matrix times that point;
\* the point sets returned are the points of the shape and their images
C18_MapViewArrows ==
    (PlotCall /\ call.view_mode = "map") =>
        /\ OnePerPoint
        /\ \A i \in PointIndices :
              /\ result.plot_data.unmapped_arrows[i] = Arrow(Origin, RawPoints[i])
              /\ result.plot_data.mapped_arrows[i] =
                    Arrow(Origin, Times(call.matrix, RawPoints[i]))
              /\ result.plot_data.unmapped_points[i] = RawPoints[i]
              /\ result.plot_data.mapped_points[i] =
                    Times(call.matrix, RawPoints[i])

\* the corner (-1,-1) of a square under [[2, 1/2], [-1, 3]]: (-5/2, -2)
C18_Witness ==
    /\ PlotCall
    /\ call.view_mode = "map"
    /\ call.matrix = Sheared
    /\ call.shape_type = "square"
    /\ result.plot_data.unmapped_arrows[1] = <<Zero, Zero, Num(-1), Num(-1)>>
    /\ result.plot_data.mapped_arrows[1] = <<Zero, Zero, Q(-5, 2), Num(-2)>>

\* C19: in difference view unmapped arrow i runs from the origin to point i
\* of the shape, mapped arrow i from that point to the matrix times it; the
\* point sets returned are those of map view
C19_DifferenceViewArrows ==
    (PlotCall /\ call.view_mode = "difference") =>
        /\ OnePerPoint
        /\ \A i \in PointIndices :
              /\ result.plot_data.unmapped_arrows[i] = Arrow(Origin, RawPoints[i])
              /\ result.plot_data.mapped_arrows[i] =
                    Arrow(RawPoints[i], Times(call.matrix, RawPoints[i]))
              /\ result.plot_data.unmapped_points[i] = RawPoints[i]
              /\ result.plot_data.mapped_points[i] =
                    Times(call.matrix, RawPoints[i])

\* the arrow from the corner (-1,-1) of a square to its image (-5/2, -2)
C19_Witness ==
    /\ PlotCall
    /\ call.view_mode = "difference"
    /\ call.matrix = Sheared
    /\ call.shape_type = "square"
    /\ result.plot_data.mapped_arrows[1] = <<Num(-1), Num(-1), Q(-5, 2), Num(-2)>>
    /\ result.plot_data.mapped_points[1] = <<Q(-5, 2), Num(-2)>>

\* C20: in normal view, and in any view other than map and difference,
\* mapped arrow i runs from point i of the shape to that point plus the
\* matrix times it, and the mapped points returned are these tips; the
\* unmapped arrows and points are those of map view
C20_NormalViewArrows ==
    (PlotCall /\ call.view_mode \notin {"map", "difference"}) =>
        /\ OnePerPoint
        /\ \A i \in PointIndices :
              /\ result.plot_data.unmapped_arrows[i] = Arrow(Origin, RawPoints[i])
              /\ result.plot_data.mapped_arrows[i] =
                    Arrow(RawPoints[i],
                          Sum(RawPoints[i], Times(call.matrix, RawPoints[i])))
              /\ result.plot_data.unmapped_points[i] = RawPoints[i]
              /\ result.plot_data.mapped_points[i] =
                    Sum(RawPoints[i], Times(call.matrix, RawPoints[i]))

\* the corner (-1,-1) of a square and its image (-5/2, -2): the tip
\* (-7/2, -3)
C20_Witness ==
    /\ PlotCall
    /\ call.view_mode = "normal"
    /\ call.matrix = Sheared
    /\ call.shape_type = "square"
    /\ result.plot_data.mapped_arrows[1] = <<Num(-1), Num(-1), Q(-7, 2), Num(-3)>>
    /\ result.plot_data.mapped_points[1] = <<Q(-7, 2), Num(-3)>>

\* C21: in every view mode the plot data have two unmapped reference
\* arrows, from the origin to (1,0) and to (0,1), and two mapped reference
\* arrows, from the origin to the first and to the second column of the
\* matrix
C21_ReferenceArrows ==
    PlotCall =>
        /\ result.plot_data.unmapped_ref_arrows =
              <<<<Zero, Zero, One, Zero>>, <<Zero, Zero, Zero, One>>>>
        /\ result.plot_data.mapped_ref_arrows =
              <<<<Zero, Zero, call.matrix[1], call.matrix[3]>>,
                <<Zero, Zero, call.matrix[2], call.matrix[4]>>>>

\* [[2, 1/2], [-1, 3]] in difference view: arrows to (2,-1) and to (1/2, 3)
C21_Witness ==
    /\ PlotCall
    /\ call.view_mode = "difference"
    /\ call.matrix = Sheared
    /\ result.plot_data.mapped_ref_arrows =
          <<<<Zero, Zero, Num(2), Num(-1)>>, <<Zero, Zero, Half, Num(3)>>>>

-----------------------------------------------------------------------------
(* Properties of create_plot (SpecCalls) *)

\* the four arrow classes of the figure of the call
ArrowClasses ==
    <<result.figure.unmapped_arrows, result.figure.mapped_arrows,
      result.figure.unmapped_reference, result.figure.mapped_reference>>

\* C22: an arrow whose tail and head coincide is not drawn in any of the
\* four arrow classes, and nothing is divided by its length 0
C22_ZeroLengthSkipped ==
    Plotted =>
        \A c \in 1..4 :
            /\ \A k \in 1..Len(ArrowClasses[c].drawn) :
                  LET a == ArrowClasses[c].drawn[k]
                  IN  a[1] # a[3] \/ a[2] # a[4]
            /\ ArrowClasses[c].divided_by_zero = {}

\* where the arrow ends
ArrowHead(arrow) == <<arrow[3], arrow[4]>>

\* C29: in every view mode, for every matrix, shape and point count, the
\* four lists of the returned plot data have the same length, the head of
\* mapped_arrows[i] is mapped_points[i] and the head of unmapped_arrows[i]
\* is unmapped_points[i]
C29_ArrowsEndOnOutlines ==
    PlotCall =>
        LET plot_data == result.plot_data
            n == Len(plot_data.unmapped_points)
        IN  /\ Len(plot_data.mapped_points) = n
            /\ Len(plot_data.unmapped_arrows) = n
            /\ Len(plot_data.mapped_arrows) = n
            /\ \A i \in 1..n :
                /\ ArrowHead(plot_data.mapped_arrows[i]) = plot_data.mapped_points[i]
                /\ ArrowHead(plot_data.unmapped_arrows[i]) =
                        plot_data.unmapped_points[i]

\* a normal view of a hexagon under a shear: the returned mapped points are
\* the extended tips, not the images of the points
C29_Witness ==
    /\ PlotCall
    /\ call.view_mode = "normal"
    /\ call.shape_type = "hexagon"
    /\ call.matrix = Sheared
    /\ Len(result.plot_data.mapped_arrows) = 12
    /\ ArrowHead(result.plot_data.mapped_arrows[2]) #
            MapPoint(call.matrix, result.plot_data.unmapped_points[2])

-----------------------------------------------------------------------------
(* Properties of the settings callbacks (Spec) *)

\* C23: the point count stored for every display is an integer of at
\* least 4; a save stores the default for an empty number input
C23_StoredPointCount ==
    \A i \in 1..4 : settings[i].num_arrows \in Nat /\ settings[i].num_arrows >= 4

\* a save made while the number input was empty has stored the default 12
C23_Witness ==
    /\ controls.num_arrows = <<>>
    /\ settings[ToInt[active_display]].num_arrows = 12
    /\ ~in_flight[Cb("save_display_settings", active_display)].sent

\* the step hands the browser the answer to the request of callback c
Answered(c) == in_flight[c].sent /\ ~in_flight'[c].sent

\* the panel that was the active one when the request of c was made
RequestPanel(c) ==
    IF c.cb = "update_display_matrix"
    THEN IF in_flight[c].trigger # <<>> THEN in_flight[c].trigger[1] ELSE ""
    ELSE in_flight[c].active_display

\* C2: an event processed while panel k is the active panel changes only
\* panel k's stored settings: in every step the stored settings of every
\* other panel keep exactly the values they had
C2_OnlyActivePanel ==
    [][\A i \in 1..4 :
            settings'[i] # settings[i] =>
                \E c \in FlightCallbacks :
                    Answered(c) /\ RequestPanel(c) = ToStr[i]]_vars

\* the step is the answer of update_display_matrix to a matrix selection
SelectionStored ==
    /\ Answered(Cb("update_display_matrix", ""))
    /\ pending' = pending
    /\ in_flight[Cb("update_display_matrix", "")].trigger # <<>>

\* C25: no settings update is lost under interleaving: when the answer of a
\* matrix selection is stored, every panel's settings keep what the saves
\* completed in the meantime have stored, and only the source matrix of the
\* panel of the selection becomes the selected one
C25_NoUpdateLost ==
    [][SelectionStored =>
        LET trigger == in_flight[Cb("update_display_matrix", "")].trigger
        IN  \A i \in 1..4 :
                settings'[i] =
                    IF ToStr[i] = trigger[1]
                    THEN [settings[i] EXCEPT !.matrix = trigger[2]]
                    ELSE settings[i]]_vars

\* the request of c was triggered by load_display_settings, which writes
\* all six controls
TriggeredByLoad(c) == Cardinality(in_flight[c].controls.triggered) = 6

\* the values of the six controls in c, the controls or a panel's settings
ControlValues(c) ==
    <<c.operation, c.scaling, c.view, c.shape, c.num_arrows, c.display_options>>

\* the step stores the answer of the save_display_{d}_settings that a load
\* has triggered, with the control values that are stored for panel d
WritesBack(d) ==
    LET c == Cb("save_display_settings", d)
    IN  /\ Answered(c)
        /\ pending' = pending
        /\ save_allowed(d, in_flight[c].active_display)
        /\ TriggeredByLoad(c)
        /\ ControlValues(in_flight[c].controls) =
                ControlValues([settings[ToInt[d]] EXCEPT !.num_arrows = <<@>>])

\* C26: switching the active panel changes no stored settings: the save that
\* follows the load of a panel's settings into the controls writes back
\* exactly the values already stored, source matrix included, and leaves the
\* other panels' settings alone
C26_SwitchChangesNothing ==
    [][\A d \in DisplayIds : WritesBack(d) => settings' = settings]_vars

\* the display buttons that are highlighted (outline = false)
HighlightedDisplays == {d \in DisplayIds : ~display_outline[d]}

\* the display button whose click waits for update_active_display
ClickedDisplays ==
    {d \in DisplayIds : Cb("update_active_display", d) \in pending}

\* C27: the active display id is one of "1".."4"; it becomes the id of a
\* clicked display button and nothing else, and a click is only given up for
\* a later click; once update_button_styles has run, exactly one display
\* button is highlighted, namely the active one
C27_ActiveDisplayHighlighted ==
    /\ [](/\ active_display \in DisplayIds
          /\ Cardinality(ClickedDisplays) <= 1
          /\ Cb("update_button_styles", "") \notin pending
                => HighlightedDisplays = {active_display})
    /\ [][/\ active_display' # active_display
                => active_display' \in ClickedDisplays
          /\ \A d \in ClickedDisplays :
                \/ active_display' = d
                \/ ClickedDisplays' # {}]_vars

\* display 2 was clicked, is the active one and is the one highlighted
C27_Witness ==
    /\ events > 0
    /\ pending = {}
    /\ active_display = "2"
    /\ display_outline = [d \in DisplayIds |-> d # "2"]

\* every callback triggered by the events so far has run and answered
Quiet ==
    /\ pending = {}
    /\ \A c \in FlightCallbacks : ~in_flight[c].sent

\* the matrix buttons that are highlighted (outline = false)
HighlightedMatrices == {m \in MatrixIds : ~matrix_outline[m]}

\* C28: once all callbacks triggered by the events have run, exactly one
\* matrix button is highlighted and it is the source matrix stored in the
\* active panel's settings (A when none is stored)
C28_HighlightedIsStored ==
    Quiet =>
        HighlightedMatrices = {SettingsMatrix(settings[ToInt[active_display]])}

====
